---- MODULE Spec2Model ----
(***************************************************************************)
(* KeywordResearchPanel (src/src/components/KeywordResearchPanel.tsx):     *)
(* the component's React state, its debounce timer, the searches in flight *)
(* and the handlers that change them.  One step of the model is one task   *)
(* of the browser's event loop: a handler together with the re-render and  *)
(* the effects it causes, and the microtasks that follow it.               *)
(***************************************************************************)
EXTENDS Integers, Sequences, FiniteSets, TLC

VARIABLES
    hasKey,          \* RAPIDAPI_KEY is set (line 10); fixed at load time
    mounted,         \* the component is mounted
    query,           \* useState('') line 34
    debouncedQuery,  \* useState('') line 35
    keywords,        \* useState<Keyword[]>([]) line 36
    isLoading,       \* useState(false) line 37
    error,           \* useState<string | null>(null) line 38
    bookmarked,      \* useState<string[]>([]) line 39
    timers,          \* the host's pending setTimeout timers (line 43)
    inflight,        \* fetch calls (line 68) whose promise has not settled
    issued,          \* number of fetch calls made so far
    age,             \* time since the last raw input value, capped at DebounceMs
    ev               \* the step that led to this state (history)

vars == <<hasKey, mounted, query, debouncedQuery, keywords, isLoading, error,
          bookmarked, timers, inflight, issued, age, ev>>

---------------------------------------------------------------------------
(* Bounds of the model *)

MaxQueryLen == 1
MaxRequests == 2
TickMs == 150
MaxItems == 2

(* The quiet interval of the debounce effect *)
DebounceMs == 300

---------------------------------------------------------------------------
(* JavaScript values: undefined, null, a number or a string *)

Undefined == [t |-> "undefined", n |-> 0, s |-> ""]
Null == [t |-> "null", n |-> 0, s |-> ""]
Num(k) == [t |-> "number", n |-> k, s |-> ""]
Str(x) == [t |-> "string", n |-> 0, s |-> x]

\* a function or another object, named by s
Obj(name) == [t |-> "object", n |-> 0, s |-> name]

Truthy(v) == \/ v.t = "number" /\ v.n # 0
             \/ v.t = "string" /\ v.s # ""
             \/ v.t = "object"

\* a || b
Or(a, b) == IF Truthy(a) THEN a ELSE b

---------------------------------------------------------------------------
(* Query strings are sequences of characters *)

Chars == {" ", "a"}
Queries == UNION {[1..k -> Chars] : k \in 0..MaxQueryLen}

IsWhite(c) == c = " "

RECURSIVE TrimStart(_)
TrimStart(s) == IF s # <<>> /\ IsWhite(Head(s)) THEN TrimStart(Tail(s)) ELSE s

RECURSIVE TrimEnd(_)
TrimEnd(s) ==
    IF s # <<>> /\ IsWhite(s[Len(s)]) THEN TrimEnd(SubSeq(s, 1, Len(s) - 1)) ELSE s

\* String.prototype.trim
Trim(s) == TrimEnd(TrimStart(s))

\* the argument of handleSearch(searchQuery?): absent, or a string
NoArg == [given |-> FALSE, s |-> <<>>]
Arg(q) == [given |-> TRUE, s |-> q]

---------------------------------------------------------------------------
(* Messages *)

MsgNoKey ==
    "RapidAPI key not configured. Please add VITE_RAPIDAPI_KEY to your environment variables."
MsgEnterTerm == "Please enter a search term"
MsgNoKeywords == "No keywords found for this query"
MsgFallback == "An error occurred while searching"
MsgStatusPrefix == "API request failed with status "
\* messages of the errors the runtime throws (not literals of the source)
MsgFetchFailed == "Failed to fetch"
MsgJsonSyntax == "Unexpected token < in JSON at position 0"
MsgNullMessage == "Cannot read properties of null (reading 'message')"
MsgNullData == "Cannot read properties of null (reading 'data')"
MsgNullItem == "Cannot read properties of null (reading 'searchVolume')"

---------------------------------------------------------------------------
(* What the provider sends back *)

\* one raw item of a results array: an object with six optional fields, or null
Item(kw, sv, v, ms, vl, dl) ==
    [isObject |-> TRUE, keyword |-> kw, searchVolume |-> sv, volume |-> v,
     monthly_searches |-> ms, volumeLabel |-> vl, difficultyLabel |-> dl]
NullItem ==
    [isObject |-> FALSE, keyword |-> Undefined, searchVolume |-> Undefined,
     volume |-> Undefined, monthly_searches |-> Undefined,
     volumeLabel |-> Undefined, difficultyLabel |-> Undefined]

\* data.data.<name>.results: an array, or missing
Results(items) == [present |-> TRUE, items |-> items]
Missing == [present |-> FALSE, items |-> <<>>]

\* a response body: text that is no JSON, the JSON null, or a JSON object
\* with an optional message and an optional data.{allIdeas,questionIdeas}
Body(parse, message, hasData, all, questions) ==
    [parse |-> parse, message |-> message, hasData |-> hasData,
     allIdeas |-> all, questionIdeas |-> questions]
Unparseable == Body("unparseable", Undefined, FALSE, Missing, Missing)
JsonNull == Body("null", Undefined, FALSE, Missing, Missing)
ErrorObject(message) == Body("object", message, FALSE, Missing, Missing)
Payload(all, questions) == Body("object", Undefined, TRUE, all, questions)
NoData == Body("object", Undefined, FALSE, Missing, Missing)

\* how a fetch settles: rejected (kind "network"), or resolved with a status
\* that is ok (kind "ok") or not (kind "http")
Outcome(kind, status, body) == [kind |-> kind, status |-> status, body |-> body]
NoOutcome == Outcome("none", 0, Unparseable)

ItemX == Item(Str("x"), Num(120), Undefined, Undefined, Undefined, Str("EASY"))
ItemY ==
    Item(Str("y"), Undefined, Undefined, Undefined, Str("MoreThanTenThousand"),
         Undefined)

\* the outcomes the panel as a whole is run with: one of each kind
Outcomes ==
    {Outcome("network", 0, Unparseable),
     Outcome("http", 429, ErrorObject(Str("quota exceeded"))),
     Outcome("ok", 200, Unparseable),
     Outcome("ok", 200, NoData),
     Outcome("ok", 200, Payload(Results(<<ItemX>>), Results(<<ItemY>>)))}

\* the outcomes a single search is run with: every status, error body and
\* success payload of up to MaxItems items per array
Statuses == {429, 500}
ErrorBodies ==
    {Unparseable, JsonNull, ErrorObject(Undefined), ErrorObject(Str("")),
     ErrorObject(Str("quota exceeded"))}
RawItems == {ItemX, ItemY, NullItem}
RawArrays == {Missing} \cup {Results(a) : a \in UNION {[1..k -> RawItems] : k \in 0..MaxItems}}
OkBodies ==
    {Unparseable, JsonNull, NoData}
    \cup {Payload(a, q) : a \in RawArrays, q \in RawArrays}
AllOutcomes ==
    {Outcome("network", 0, Unparseable)}
    \cup {Outcome("http", st, b) : st \in Statuses, b \in ErrorBodies}
    \cup {Outcome("ok", 200, b) : b \in OkBodies}

---------------------------------------------------------------------------
(* searchKeywords, lines 60-102 *)

\* what the promise of searchKeywords settles to
Resolve(list) == [ok |-> TRUE, keywords |-> list, isError |-> FALSE, message |-> ""]
Throw(message) == [ok |-> FALSE, keywords |-> <<>>, isError |-> TRUE, message |-> message]

\* data.data?.<name>?.results || []
ResultsOrEmpty(body, results) ==
    IF body.hasData /\ results.present THEN results.items ELSE <<>>

\* a merge that puts the question suggestions first
MergeIdeas_QuestionsFirst(body) ==
    ResultsOrEmpty(body, body.questionIdeas) \o ResultsOrEmpty(body, body.allIdeas)

\* [...allIdeas, ...questionIdeas]
MergeIdeas(body) ==
    ResultsOrEmpty(body, body.allIdeas) \o ResultsOrEmpty(body, body.questionIdeas)

\* keyword.searchVolume || keyword.volume || keyword.monthly_searches
ExactVolume(item) == Or(Or(item.searchVolume, item.volume), item.monthly_searches)

\* the body of the map callback, lines 89-97
ToKeyword(item) ==
    LET exactVolume == ExactVolume(item)
    IN  [term |-> item.keyword,
         volume |-> IF exactVolume.t = "number"
                    THEN exactVolume
                    ELSE Or(item.volumeLabel, Str("Unknown")),
         difficulty |-> Or(item.difficultyLabel, Str("Unknown"))]

\* lines 81-97: the success body parsed, merged and mapped
Normalize(body) ==
    IF body.parse = "unparseable" THEN Throw(MsgJsonSyntax)
    ELSE IF body.parse = "null" THEN Throw(MsgNullData)
    ELSE LET raw == MergeIdeas(body)
         IN  IF \E i \in DOMAIN raw : ~raw[i].isObject
             THEN Throw(MsgNullItem)
             ELSE Resolve([i \in DOMAIN raw |-> ToKeyword(raw[i])])

\* `API request failed with status ${response.status}`
StatusMessage(status) == MsgStatusPrefix \o ToString(status)

\* an error that never reads the body's message
ErrorOfResponse_IgnoresMessage(status, body) == Throw(StatusMessage(status))

\* lines 76-79: the error thrown for a response that is not ok
ErrorOfResponse(status, body) ==
    IF body.parse = "null" THEN Throw(MsgNullMessage)
    ELSE LET errorData == IF body.parse = "object" THEN body
                          ELSE ErrorObject(Undefined)
         IN  Throw(Or(errorData.message, Str(StatusMessage(status))).s)

\* lines 67-101, once fetch has settled as `out`
searchKeywords(out) ==
    IF out.kind = "network" THEN Throw(MsgFetchFailed)
    ELSE IF out.kind = "http" THEN ErrorOfResponse(out.status, out.body)
    ELSE Normalize(out.body)

---------------------------------------------------------------------------
(* The volume shown on a card, lines 14-25 and 216 *)

\* the own properties of the map literal, lines 17-23
VolumeMap(label) ==
    CASE label = "MoreThanHundredThousand" -> Str("100,000+")
      [] label = "MoreThanTenThousand" -> Str("10,000+")
      [] label = "MoreThanOneThousand" -> Str("1,000+")
      [] label = "MoreThanOneHundred" -> Str("100+")
      [] label = "LessThanOneHundred" -> Str("<100")
      [] OTHER -> Undefined

\* the properties every object literal inherits from Object.prototype
ObjectPrototypeKeys ==
    {"constructor", "hasOwnProperty", "isPrototypeOf", "propertyIsEnumerable",
     "toLocaleString", "toString", "valueOf", "__proto__", "__defineGetter__",
     "__defineSetter__", "__lookupGetter__", "__lookupSetter__"}

\* map[label], line 24: an own property, else an inherited one, else undefined
MapLookup(label) ==
    IF VolumeMap(label) # Undefined THEN VolumeMap(label)
    ELSE IF label \in ObjectPrototypeKeys THEN Obj(label)
    ELSE Undefined

formatVolumeLabel(label) ==
    IF label = "" \/ label = "Unknown" THEN Str("Unknown")
    ELSE Or(MapLookup(label), Str(label))

\* three digits of a group after the first, with leading zeros
Pad3(n) ==
    IF n < 10 THEN "00" \o ToString(n)
    ELSE IF n < 100 THEN "0" \o ToString(n)
    ELSE ToString(n)

\* Number.prototype.toLocaleString (en-US) of a natural number
RECURSIVE LocaleString(_)
LocaleString(n) ==
    IF n < 1000 THEN ToString(n)
    ELSE LocaleString(n \div 1000) \o "," \o Pad3(n % 1000)

\* line 216: typeof k.volume === 'number' ? k.volume.toLocaleString()
\*                                        : formatVolumeLabel(String(k.volume))
VolumeText(k) ==
    IF k.volume.t = "number" THEN Str(LocaleString(k.volume.n))
    ELSE formatVolumeLabel(k.volume.s)

---------------------------------------------------------------------------
(* The state after the first render and its effects: the debounce effect   *)
(* has started a timer for '' and the auto-search effect has cleared the   *)
(* (already empty) keywords and error.                                     *)

Timer(value) == [value |-> value, remaining |-> DebounceMs]
Event(kind, req, out) == [kind |-> kind, req |-> req, out |-> out]
Request(id, q) == [id |-> id, query |-> q]

Init ==
    /\ hasKey \in BOOLEAN
    /\ mounted = TRUE
    /\ query = <<>>
    /\ debouncedQuery = <<>>
    /\ keywords = <<>>
    /\ isLoading = FALSE
    /\ error = Null
    /\ bookmarked = <<>>
    /\ timers = {Timer(<<>>)}
    /\ inflight = {}
    /\ issued = 0
    /\ age = 0
    /\ ev = Event("mount", 0, NoOutcome)

\* disabled={isLoading || !RAPIDAPI_KEY}, lines 168 and 173
ControlsEnabled == ~isLoading /\ hasKey

---------------------------------------------------------------------------
(* handleSearch, lines 104-129, up to its await *)

\* lines 60-63 and 123-127: without a key searchKeywords rejects before any
\* fetch, and the catch and finally blocks run as microtasks of the same task
SearchWithoutKey ==
    /\ keywords' = <<>>
    /\ error' = Str(MsgNoKey)
    /\ isLoading' = FALSE
    /\ UNCHANGED <<inflight, issued>>

\* lines 112-117 and 65-74: Loading, and one fetch sent
SearchWithKey(queryToSearch) ==
    /\ issued < MaxRequests
    /\ isLoading' = TRUE
    /\ error' = Null
    /\ keywords' = <<>>
    /\ inflight' = inflight \cup {Request(issued + 1, queryToSearch)}
    /\ issued' = issued + 1

\* an emptiness test that forgets to trim
IsBlank_NoTrim(q) == q = <<>>

\* !queryToSearch.trim(), line 107
IsBlank(q) == Trim(q) = <<>>

\* searchQuery || query, line 105
QueryToSearch(arg) == IF arg.given /\ arg.s # <<>> THEN arg.s ELSE query

\* a handleSearch whose searchKeywords does not check the key first
handleSearch_NoKeyCheck(arg) ==
    LET queryToSearch == QueryToSearch(arg)
    IN  IF IsBlank(queryToSearch)
        THEN /\ error' = Str(MsgEnterTerm)
             /\ UNCHANGED <<keywords, isLoading, inflight, issued>>
        ELSE SearchWithKey(queryToSearch)

handleSearch(arg) ==
    LET queryToSearch == QueryToSearch(arg)
    IN  IF IsBlank(queryToSearch)
        THEN /\ error' = Str(MsgEnterTerm)
             /\ UNCHANGED <<keywords, isLoading, inflight, issued>>
        ELSE IF ~hasKey THEN SearchWithoutKey
        ELSE SearchWithKey(queryToSearch)

---------------------------------------------------------------------------
(* The debounce effect, lines 41-48 *)

\* an effect with no cleanup
ClearTimeout_Never(ts, q) == ts

\* the cleanup of the previous run: clearTimeout of the timer it started,
\* which is the one whose callback captured the previous query
ClearTimeout(ts, q) == {t \in ts : t.value # q}

\* onChange={(e) => setQuery(e.target.value)}, line 166, the re-render and
\* the debounce effect's cleanup and next run
ChangeQuery(v) ==
    /\ mounted
    /\ v # query
    /\ query' = v
    /\ timers' = ClearTimeout(timers, query) \cup {Timer(v)}
    /\ age' = 0
    /\ ev' = Event("change", 0, NoOutcome)
    /\ UNCHANGED <<hasKey, mounted, debouncedQuery, keywords, isLoading, error,
                   bookmarked, inflight, issued>>

\* the input takes a change only while it is not disabled, line 168
SetQuery(v) == ControlsEnabled /\ ChangeQuery(v)

Min(a, b) == IF a < b THEN a ELSE b

\* time passes, by at most TickMs and never beyond a timer's expiry
Tick ==
    /\ timers # {}
    /\ \A t \in timers : t.remaining > 0
    /\ LET steps == {TickMs} \cup {t.remaining : t \in timers}
           d == CHOOSE x \in steps : \A y \in steps : x <= y
       IN  /\ timers' = {[t EXCEPT !.remaining = @ - d] : t \in timers}
           /\ age' = Min(age + d, DebounceMs)
    /\ ev' = Event("tick", 0, NoOutcome)
    /\ UNCHANGED <<hasKey, mounted, query, debouncedQuery, keywords, isLoading,
                   error, bookmarked, inflight, issued>>

\* an auto-search effect that clears the keywords but not the error
AutoSearch_KeepsError(dq) ==
    IF ~IsBlank(dq)
    THEN handleSearch(Arg(dq))
    ELSE /\ keywords' = <<>>
         /\ UNCHANGED <<error, isLoading, inflight, issued>>

\* the auto-search effect, lines 50-58, run for a changed debouncedQuery
AutoSearch(dq) ==
    IF ~IsBlank(dq)
    THEN handleSearch(Arg(dq))
    ELSE /\ keywords' = <<>>
         /\ error' = Null
         /\ UNCHANGED <<isLoading, inflight, issued>>

\* the timer's callback, line 44: setDebouncedQuery(query); a value equal to
\* the current state causes no re-render and so no effect
TimerFires(t) ==
    /\ t \in timers
    /\ t.remaining = 0
    /\ timers' = timers \ {t}
    /\ debouncedQuery' = t.value
    /\ IF t.value # debouncedQuery
       THEN AutoSearch(t.value)
       ELSE UNCHANGED <<keywords, isLoading, error, inflight, issued>>
    /\ ev' = Event("commit", 0, NoOutcome)
    /\ UNCHANGED <<hasKey, mounted, query, bookmarked, age>>

\* an unmount that leaves the pending timer running
Unmount_NoCleanup ==
    /\ mounted
    /\ mounted' = FALSE
    /\ ev' = Event("unmount", 0, NoOutcome)
    /\ UNCHANGED <<hasKey, query, debouncedQuery, keywords, isLoading, error,
                   bookmarked, timers, inflight, issued, age>>

\* the effect's cleanup on unmount, line 47
Unmount ==
    /\ mounted
    /\ mounted' = FALSE
    /\ timers' = ClearTimeout(timers, query)
    /\ ev' = Event("unmount", 0, NoOutcome)
    /\ UNCHANGED <<hasKey, query, debouncedQuery, keywords, isLoading, error,
                   bookmarked, inflight, issued, age>>

---------------------------------------------------------------------------
(* Explicit submits *)

Keys == {"Enter", "a"}

\* handleKeyPress, lines 131-135
KeyPress(key) ==
    /\ mounted
    /\ IF key = "Enter" /\ ~isLoading
       THEN /\ handleSearch(NoArg)
            /\ ev' = Event("enter", 0, NoOutcome)
       ELSE UNCHANGED <<keywords, isLoading, error, inflight, issued, ev>>
    /\ UNCHANGED <<hasKey, mounted, query, debouncedQuery, bookmarked, timers, age>>

handleKeyPress(key) == ControlsEnabled /\ KeyPress(key)

\* a Search button that is never disabled
ClickSearch_AlwaysEnabled ==
    /\ mounted
    /\ handleSearch(NoArg)
    /\ ev' = Event("click", 0, NoOutcome)
    /\ UNCHANGED <<hasKey, mounted, query, debouncedQuery, bookmarked, timers, age>>

\* onClick={() => handleSearch()}, line 172
ClickSearch ==
    /\ mounted /\ ControlsEnabled
    /\ handleSearch(NoArg)
    /\ ev' = Event("click", 0, NoOutcome)
    /\ UNCHANGED <<hasKey, mounted, query, debouncedQuery, bookmarked, timers, age>>

---------------------------------------------------------------------------
(* handleSearch after its await, lines 117-128 *)

\* err instanceof Error ? err.message : '...', line 125
CatchMessage(res) == IF res.isError THEN res.message ELSE MsgFallback

\* a handleSearch that resets isLoading at the end of its try block and not
\* in a finally block
Settle_NoFinally(r, out) ==
    /\ r \in inflight
    /\ inflight' = inflight \ {r}
    /\ LET res == searchKeywords(out)
       IN  IF ~mounted
           THEN UNCHANGED <<keywords, error, isLoading>>
           ELSE /\ keywords' = IF res.ok THEN res.keywords ELSE keywords
                /\ error' = IF ~res.ok THEN Str(CatchMessage(res))
                            ELSE IF Len(res.keywords) = 0 THEN Str(MsgNoKeywords)
                            ELSE error
                /\ isLoading' = IF res.ok THEN FALSE ELSE isLoading
    /\ ev' = Event("settle", r.id, out)
    /\ UNCHANGED <<hasKey, mounted, query, debouncedQuery, bookmarked, timers,
                   issued, age>>

\* a handleSearch that never reports an empty result
Settle_NoEmptyMessage(r, out) ==
    /\ r \in inflight
    /\ inflight' = inflight \ {r}
    /\ LET res == searchKeywords(out)
       IN  IF ~mounted
           THEN UNCHANGED <<keywords, error, isLoading>>
           ELSE /\ keywords' = IF res.ok THEN res.keywords ELSE keywords
                /\ error' = IF ~res.ok THEN Str(CatchMessage(res)) ELSE error
                /\ isLoading' = FALSE
    /\ ev' = Event("settle", r.id, out)
    /\ UNCHANGED <<hasKey, mounted, query, debouncedQuery, bookmarked, timers,
                   issued, age>>

\* the fetch of request r settles as `out`; state updates of an unmounted
\* component are dropped
Settle(r, out) ==
    /\ r \in inflight
    /\ inflight' = inflight \ {r}
    /\ LET res == searchKeywords(out)
       IN  IF ~mounted
           THEN UNCHANGED <<keywords, error, isLoading>>
           ELSE /\ keywords' = IF res.ok THEN res.keywords ELSE keywords
                /\ error' = IF ~res.ok THEN Str(CatchMessage(res))
                            ELSE IF Len(res.keywords) = 0 THEN Str(MsgNoKeywords)
                            ELSE error
                /\ isLoading' = FALSE
    /\ ev' = Event("settle", r.id, out)
    /\ UNCHANGED <<hasKey, mounted, query, debouncedQuery, bookmarked, timers,
                   issued, age>>

---------------------------------------------------------------------------
(* Bookmarks, lines 137-143 *)

\* a membership test that looks at the first element only
Includes_FirstOnly(list, x) == list # <<>> /\ list[1] = x

Includes(list, x) == \E i \in DOMAIN list : list[i] = x
Filter(list, x) == SelectSeq(list, LAMBDA t : t # x)

\* a toggle that never looks whether the term is there
toggleBookmark_AlwaysAppends(prev, term) == Append(prev, term)

toggleBookmark(prev, term) ==
    IF Includes(prev, term) THEN Filter(prev, term) ELSE Append(prev, term)

\* a star button that also takes the card out of the results
ToggleBookmark_FiltersKeywords(i) ==
    /\ mounted /\ ~isLoading /\ Len(keywords) > 0
    /\ i \in DOMAIN keywords
    /\ bookmarked' = toggleBookmark(bookmarked, keywords[i].term)
    /\ keywords' = SelectSeq(keywords, LAMBDA k : k.term # keywords[i].term)
    /\ ev' = Event("toggle", i, NoOutcome)
    /\ UNCHANGED <<hasKey, mounted, query, debouncedQuery, isLoading,
                   error, timers, inflight, issued, age>>

\* the star button of a rendered card, lines 193-213
ToggleBookmark(i) ==
    /\ mounted /\ ~isLoading /\ Len(keywords) > 0
    /\ i \in DOMAIN keywords
    /\ bookmarked' = toggleBookmark(bookmarked, keywords[i].term)
    /\ ev' = Event("toggle", i, NoOutcome)
    /\ UNCHANGED <<hasKey, mounted, query, debouncedQuery, keywords, isLoading,
                   error, timers, inflight, issued, age>>

---------------------------------------------------------------------------

Next ==
    \/ \E v \in Queries : SetQuery(v)
    \/ Tick
    \/ \E t \in timers : TimerFires(t)
    \/ \E key \in Keys : handleKeyPress(key)
    \/ ClickSearch
    \/ \E r \in inflight, out \in Outcomes : Settle(r, out)
    \/ \E i \in DOMAIN keywords : ToggleBookmark(i)
    \/ Unmount

Spec == Init /\ [][Next]_vars

\* the provider answers every request
FairSpec == Spec /\ WF_vars(\E r \in inflight, out \in Outcomes : Settle(r, out))

(* The panel without a credential, driven by events dispatched to its      *)
(* handlers directly, as a test of the component does: the disabled        *)
(* attribute of lines 168 and 173 does not stand in their way.             *)
InitNoKey == Init /\ ~hasKey

NextNoKey ==
    \/ \E v \in Queries : ChangeQuery(v)
    \/ Tick
    \/ \E t \in timers : TimerFires(t)
    \/ \E key \in Keys : KeyPress(key)
    \/ Unmount

SpecNoKey == InitNoKey /\ [][NextNoKey]_vars

(* One search, issued by the debouncer for the query "a", and every way    *)
(* its fetch can settle.                                                    *)
InitResponse ==
    /\ hasKey = TRUE
    /\ mounted = TRUE
    /\ query = <<"a">>
    /\ debouncedQuery = <<"a">>
    /\ keywords = <<>>
    /\ isLoading = TRUE
    /\ error = Null
    /\ bookmarked = <<>>
    /\ timers = {}
    /\ inflight = {Request(1, <<"a">>)}
    /\ issued = 1
    /\ age = DebounceMs
    /\ ev = Event("commit", 0, NoOutcome)

NextResponse == \E r \in inflight, out \in AllOutcomes : Settle(r, out)

SpecResponse == InitResponse /\ [][NextResponse]_vars

(* One search whose fetch settles with a single general suggestion, for    *)
(* every combination of its volume fields and volume label.                *)
VolumeValues == {Undefined, Num(0), Num(50), Num(1200), Str("12")}
VolumeLabels ==
    {"MoreThanHundredThousand", "MoreThanTenThousand", "MoreThanOneThousand",
     "MoreThanOneHundred", "LessThanOneHundred", "Unknown", "HIGH", "100+",
     "constructor", "toString"}
ItemDomain ==
    {Item(Str("x"), sv, v, ms, vl, Undefined) :
        sv \in VolumeValues, v \in VolumeValues, ms \in VolumeValues,
        vl \in {Undefined} \cup {Str(l) : l \in VolumeLabels}}

NextItem ==
    \E r \in inflight, item \in ItemDomain :
       Settle(r, Outcome("ok", 200, Payload(Results(<<item>>), Missing)))

SpecItem == InitResponse /\ [][NextItem]_vars

---------------------------------------------------------------------------
(* Properties *)

\* the state the panel shows
Displayed == <<keywords, error, isLoading>>

\* the terms in a bookmark list
BookmarkSet(list) == {list[i] : i \in DOMAIN list}

\* the raw items a success body carries, general suggestions first
RawAll(body) == IF body.hasData /\ body.allIdeas.present THEN body.allIdeas.items ELSE <<>>
RawQuestions(body) ==
    IF body.hasData /\ body.questionIdeas.present THEN body.questionIdeas.items ELSE <<>>

\* the settled fetch is one whose search fails: a rejected fetch, a status
\* that is not ok, or a success body that cannot be parsed or normalized
Failed(out) ==
    \/ out.kind \in {"network", "http"}
    \/ out.body.parse # "object"
    \/ \E i \in DOMAIN RawAll(out.body) : ~RawAll(out.body)[i].isObject
    \/ \E i \in DOMAIN RawQuestions(out.body) : ~RawQuestions(out.body)[i].isObject

\* the step taken is an explicit submit (Enter or the Search button)
Submitted == ev'.kind \in {"enter", "click"}
\* the step taken is a debounce commit, and one that changes debouncedQuery
Committed == ev'.kind = "commit"
CommittedNew == Committed /\ debouncedQuery' # debouncedQuery

\* C1: last request wins. The response to a request that is not the most
\* recently issued one changes none of keywords, error and isLoading, and the
\* response to the most recently issued one leaves exactly its own outcome:
\* its result list (with the 'no results' message when empty, no error
\* otherwise) or its error over an empty list, and isLoading false.
C1_LastRequestWins ==
    [][ev'.kind = "settle" /\ mounted =>
         IF ev'.req # issued
         THEN UNCHANGED Displayed
         ELSE /\ isLoading' = FALSE
              /\ Failed(ev'.out) => keywords' = <<>> /\ error' # Null
              /\ ~Failed(ev'.out) =>
                    /\ Len(keywords') =
                          Len(RawAll(ev'.out.body)) + Len(RawQuestions(ev'.out.body))
                    /\ error' = IF Len(keywords') = 0 THEN Str(MsgNoKeywords) ELSE Null]_vars

\* C2: debounce coalescing. Every pending timer carries the latest raw value
\* and expires DebounceMs after it; a commit sets debouncedQuery to the
\* latest raw value, DebounceMs after that value arrived, and leaves no
\* timer behind that could commit again.
C2_DebounceCoalescing ==
    /\ [](\A t \in timers : t.value = query /\ t.remaining = DebounceMs - age)
    /\ [][Committed =>
            /\ debouncedQuery' = query
            /\ age = DebounceMs
            /\ timers' = {}]_vars

\* a commit that finds the results of the same query still shown: the query
\* left that value and came back to it within the quiet interval, and the
\* value in between was never committed
C2_Witness ==
    /\ ev.kind = "commit"
    /\ debouncedQuery = <<"a">>
    /\ Len(keywords) > 0

\* C3: without the credential no request is ever issued, and a search for a
\* non-blank query, submitted or committed, ends with the configuration
\* error and isLoading false.
C3_MissingCredential ==
    /\ [](~hasKey => inflight = {} /\ issued = 0)
    /\ [][/\ ~hasKey
          /\ \/ Submitted /\ ~IsBlank(query)
             \/ CommittedNew /\ ~IsBlank(debouncedQuery')
          => error' = Str(MsgNoKey) /\ isLoading' = FALSE]_vars

C3_Witness ==
    /\ ~hasKey
    /\ ev.kind = "enter"
    /\ query = <<"a">>
    /\ error = Str(MsgNoKey)
    /\ ~isLoading

\* C4: no request in flight carries a blank query, and a submit or a commit
\* of a blank query issues no request.
C4_BlankIssuesNothing ==
    /\ [](\A r \in inflight : Trim(r.query) # <<>>)
    /\ [][\/ Submitted /\ Trim(query) = <<>>
          \/ Committed /\ Trim(debouncedQuery') = <<>>
          => inflight' = inflight /\ issued' = issued]_vars

\* the whitespace-only query was committed and then submitted with a click
C4_Witness ==
    /\ ev.kind = "click"
    /\ query = <<" ">>
    /\ debouncedQuery = <<" ">>
    /\ hasKey

C6_MutuallyExclusive ==
    /\ ~(error # Null /\ Len(keywords) > 0)
    /\ isLoading => error = Null /\ keywords = <<>>

\* C7: when the fetch of a search settles, isLoading is false; a failure of
\* any kind leaves its message as the error and a success leaves its list;
\* while loading a fetch is outstanding, and, the provider answering every
\* request, loading always ends.
C7_NeverLeftLoading ==
    /\ [](mounted /\ isLoading => inflight # {})
    /\ [][ev'.kind = "settle" /\ mounted =>
            /\ isLoading' = FALSE
            /\ Failed(ev'.out) => error' # Null /\ error'.t = "string" /\ error'.s # ""
            /\ ~Failed(ev'.out) =>
                  Len(keywords') =
                     Len(RawAll(ev'.out.body)) + Len(RawQuestions(ev'.out.body))]_vars
    /\ (mounted /\ isLoading) ~> ~(mounted /\ isLoading)

\* a success body that is no JSON, turned into an error
C7_Witness ==
    /\ ev.kind = "settle"
    /\ mounted
    /\ ev.out = Outcome("ok", 200, Unparseable)
    /\ error = Str(MsgJsonSyntax)
    /\ ~isLoading

BookmarkTerms == {Str("x"), Str("y"), Str("z"), Undefined}

\* C9: for the bookmark list of every reachable state and every term t, a
\* toggle of t adds it when absent and removes it when present, leaves the
\* membership of every other term alone, and a second toggle of t restores
\* the membership of every term.
C9_ToggleTwice ==
    \A t \in BookmarkTerms :
       LET once == toggleBookmark(bookmarked, t)
           twice == toggleBookmark(once, t)
       IN  /\ t \in BookmarkSet(once) <=> t \notin BookmarkSet(bookmarked)
           /\ BookmarkSet(once) \ {t} = BookmarkSet(bookmarked) \ {t}
           /\ BookmarkSet(twice) = BookmarkSet(bookmarked)

\* a toggle that removed the last bookmark: with results shown again after a
\* second search, the list is back to empty by toggling a bookmarked term
C9_Witness ==
    /\ ev.kind = "toggle"
    /\ bookmarked = <<>>
    /\ issued = 2

\* C10: for a success body whose items are objects, the keyword list has one
\* entry per raw item: the general suggestions in the provider's order, then
\* the question suggestions in the provider's order, a missing array counting
\* as empty.
C10_NormalizationOrder ==
    ev.kind = "settle" /\ ~Failed(ev.out) =>
       LET all == RawAll(ev.out.body)
           questions == RawQuestions(ev.out.body)
       IN  /\ Len(keywords) = Len(all) + Len(questions)
           /\ \A i \in DOMAIN all : keywords[i].term = all[i].keyword
           /\ \A j \in DOMAIN questions :
                 keywords[Len(all) + j].term = questions[j].keyword

\* a term present in both arrays appears twice
C10_Witness ==
    /\ ev.kind = "settle"
    /\ ev.out.body.allIdeas = Results(<<ItemX, ItemY>>)
    /\ ev.out.body.questionIdeas = Results(<<ItemX>>)
    /\ Len(keywords) = 3

\* the first of the three volume fields that holds a number, if any
FirstNumber(item) ==
    IF item.searchVolume.t = "number" THEN item.searchVolume
    ELSE IF item.volume.t = "number" THEN item.volume
    ELSE IF item.monthly_searches.t = "number" THEN item.monthly_searches
    ELSE Undefined

\* C11: the volume of a normalized keyword is the first of searchVolume,
\* volume and monthly_searches that holds a number, 0 included; the
\* volumeLabel only when none of them holds a number, and "Unknown" only
\* when the label is absent too.
C11_VolumeDerivation ==
    ev.kind = "settle" /\ ~Failed(ev.out) =>
       \A i \in DOMAIN keywords :
          LET item == (RawAll(ev.out.body) \o RawQuestions(ev.out.body))[i]
          IN  keywords[i].volume =
                 IF FirstNumber(item) # Undefined THEN FirstNumber(item)
                 ELSE IF item.volumeLabel # Undefined THEN item.volumeLabel
                 ELSE Str("Unknown")


\* C12: a blank query committed while a request is in flight supersedes it:
\* when the response of that request arrives next, it changes neither
\* keywords nor error.
C12_BlankCommitSupersedes ==
    [][/\ ev.kind = "commit"
       /\ Trim(debouncedQuery) = <<>>
       /\ ev'.kind = "settle"
       /\ mounted
       => UNCHANGED <<keywords, error>>]_vars


\* C13: when a request's fetch succeeds with no items, keywords is empty,
\* error is the 'no results' message and isLoading is false; a success with
\* items leaves error as it was.
C13_EmptyResult ==
    [][ev'.kind = "settle" /\ mounted /\ ~Failed(ev'.out) =>
         IF Len(RawAll(ev'.out.body)) + Len(RawQuestions(ev'.out.body)) = 0
         THEN keywords' = <<>> /\ error' = Str(MsgNoKeywords) /\ isLoading' = FALSE
         ELSE error' = error]_vars

\* the most recently issued request succeeded with an empty list
C13_Witness ==
    /\ ev.kind = "settle"
    /\ mounted
    /\ ev.req = issued
    /\ ev.out = Outcome("ok", 200, NoData)
    /\ keywords = <<>> /\ error = Str(MsgNoKeywords) /\ ~isLoading


\* C14: a bookmark toggle changes nothing but the bookmark list (query,
\* debouncedQuery, keywords, isLoading, error, the pending timer and the
\* requests in flight stay, no request is issued), and no other step
\* changes the bookmark list.
C14_BookmarkIndependence ==
    [][/\ ev'.kind = "toggle" =>
             UNCHANGED <<query, debouncedQuery, keywords, isLoading, error,
                         timers, inflight, issued>>
       /\ ev'.kind # "toggle" => bookmarked' = bookmarked]_vars

\* bookmarks kept through a second search whose results are empty
C14_Witness ==
    /\ ev.kind = "settle"
    /\ issued = 2
    /\ keywords = <<>>
    /\ bookmarked # <<>>

\* C15: at most one debounce timer is pending; a change of the raw value
\* leaves exactly the new value's 300 ms timer; after unmount no timer is
\* pending and debouncedQuery never changes; a commit is always of the
\* current raw value after 300 quiet ms.
C15_SinglePendingTimer ==
    /\ [](Cardinality(timers) <= 1)
    /\ [](~mounted => timers = {})
    /\ [][ev'.kind = "change" => timers' = {Timer(query')}]_vars
    /\ [][ev'.kind = "commit" =>
             mounted /\ debouncedQuery' = query /\ age = DebounceMs]_vars
    /\ [][~mounted => debouncedQuery' = debouncedQuery]_vars

\* unmounted while the timer of a typed value was still running
C15_Witness ==
    /\ ~mounted
    /\ ev.kind = "unmount"
    /\ query = <<"a">>
    /\ debouncedQuery = <<>>
    /\ age < DebounceMs
    /\ timers = {}


\* the mapping of the five volume tokens, every other token unchanged
ExpectedVolumeLabel(label) ==
    IF label = "MoreThanHundredThousand" THEN Str("100,000+")
    ELSE IF label = "MoreThanTenThousand" THEN Str("10,000+")
    ELSE IF label = "MoreThanOneThousand" THEN Str("1,000+")
    ELSE IF label = "MoreThanOneHundred" THEN Str("100+")
    ELSE IF label = "LessThanOneHundred" THEN Str("<100")
    ELSE Str(label)

\* C16: the volume text of a keyword whose volume is a non-empty label is
\* the label's range for the five known tokens and the label itself for
\* every other token.
C16_VolumeLabelFormatting ==
    \A i \in DOMAIN keywords :
       keywords[i].volume.t = "string" /\ keywords[i].volume.s # "" =>
          VolumeText(keywords[i]) = ExpectedVolumeLabel(keywords[i].volume.s)

\* C17: whenever a request is in flight, isLoading is true.
C17_LoadingReflectsInflight ==
    mounted /\ inflight # {} => isLoading


\* C18 as stated: at most one request is in flight at any time.
C18_AtMostOneInflight ==
    Cardinality(inflight) <= 1

\* C18: while isLoading is true the input takes no change and neither the
\* Enter key nor the Search button starts a search; the only step that
\* issues a request while one is loading is a debounce commit.
C18_NoSubmitWhileLoading ==
    /\ [][isLoading => ev'.kind \notin {"change", "enter", "click"}]_vars
    /\ [][isLoading /\ issued' > issued => ev'.kind = "commit"]_vars

\* a debounce commit has issued a second request while the first is in flight
C18_Witness ==
    /\ ev.kind = "commit"
    /\ isLoading
    /\ Cardinality(inflight) = 2

\* C19: no term occurs twice in the bookmark list.
C19_NoDuplicateBookmarks ==
    \A i, j \in DOMAIN bookmarked : i # j => bookmarked[i] # bookmarked[j]

\* a toggle has left two terms bookmarked
C19_Witness ==
    /\ ev.kind = "toggle"
    /\ Len(bookmarked) = 2

====
